---- MODULE Spec2Model ----
(***************************************************************************)
(* Model of src/firmware.py: the boot sequence of run(), the hardware      *)
(* pulse counters, the timer-driven send_telemetry() cycle with its        *)
(* failure path (store back, connectivity recovery, failure count,         *)
(* escalation to reset()) and the supervisor main loop.                    *)
(*                                                                         *)
(* send_telemetry() runs as a timer callback.  It is split at the points   *)
(* where the environment can act between two of its statements: the two    *)
(* counter reads (the PCNT peripheral keeps counting while interrupts are  *)
(* disabled), the blocking requests.post, the connectivity check and the   *)
(* failure-count increment.  A callback preempts the main loop and runs    *)
(* to completion before the next timer callback is dispatched.             *)
(*                                                                         *)
(* Spec is the device on an image without a module urequests, with         *)
(* requests that take no time and counter reads that return.  Four         *)
(* specifications add one thing each: SpecReadFault a raising counter      *)
(* read, SpecOverlap a tick that preempts a running callback,              *)
(* SpecWatchdog the time a request takes, SpecTransport the image that     *)
(* has urequests.                                                          *)
(*                                                                         *)
(* Collaborators that are not part of the repository are modelled by       *)
(* their contract: PCNT.value(0) returns the count and clears it,          *)
(* PCNT.value() returns it, requests.post returns a status code or         *)
(* raises, wifimgr.get_connection returns a station handle, returns None   *)
(* or raises, reset() does not return.                                     *)
(***************************************************************************)
EXTENDS Integers, FiniteSets, TLC

\* ---------------------------------------------------------------- bounds
MaxPulses == 2       \* pulses of one channel not yet confirmed by the server
MaxFails == 5        \* failed cycles in a row that are followed by another tick
MaxOverlaps == 1     \* preempting ticks per boot; the boot is followed until the
                     \* cycles of the last of them have ended

\* ------------------------------------------------------ program constants
WDT_TIMEOUT == 30000
TELEMETRY_MAX_FAILURES == 5

Channels == {"output", "rejection"}
None == "None"
Sta == "sta"                       \* the WLAN station handle
StatusCodes == {200, 201, 500}
NoResponse == [kind |-> "none", code |-> 0]
Raised == [kind |-> "exception", code |-> 0]
Status(s) == [kind |-> "status", code |-> s]
\* what get_configuration() can return: nothing, or the two enable flags
NoConfiguration == [present |-> FALSE, enable_output_signal |-> FALSE,
                    enable_rejection_signal |-> FALSE]
Configurations == [present : {TRUE}, enable_output_signal : BOOLEAN,
                   enable_rejection_signal : BOOLEAN]
Zero == [c \in Channels |-> 0]
Nowhere == [c \in Channels |-> FALSE]
NoReport == [count |-> Zero, expected |-> Zero, late |-> Nowhere, cleared |-> 0]
NoMark == [c \in Channels |-> [base |-> 0, quiet |-> FALSE, n |-> 0]]

VARIABLES
    \* ---- run()
    pcRun,                  \* position of run(): start, configure, setup, loop
    site,                   \* "" until settings.json has been loaded
    configuration,          \* result of get_configuration(), None before
    counter_function,       \* per channel: is the PCNT object configured
    timer_started,          \* send_telemetry_signal.init was called
    wdt_fed,                \* the main loop has fed the watchdog since the last tick
    resetBy,                \* "none", or who has just called reset()
    \* ---- hardware / environment
    pcnt,                   \* per channel: value of the hardware counter
    associated,             \* the station is associated with an access point
    \* ---- module globals
    accumulated_unsent,     \* accumulated_unsent_output / _rejection
    telemetry_failures,
    wlan,                   \* None or the station handle
    \* ---- send_telemetry()
    pc,                     \* position of the callback
    irq_disabled,
    current_count,          \* current_output_count / current_rejection_count
    total_to_send,          \* total_output_to_send / total_rejection_to_send
    response,
    suspended,              \* the send_telemetry() call a later tick has preempted:
                            \* whether there is one, and its totals
    \* ---- the platform
    wdt_clock,              \* milliseconds since the last wdt.feed()
    requests_module,        \* the module object bound to the name requests:
                            \* 0 is the one line 9 imported
    urequests_available,    \* the firmware image holds a module urequests
    \* ---- history, for stating the properties
    owed,                   \* pulses since the drain of the last successful report
    sinceDrain,             \* pulses since the most recent drain of the channel
    consecFails,            \* failed cycles since the last success or boot
    lastOutcome,            \* none, running, or how the last cycle ended: ok, fail, raised
    failuresAtTick,         \* telemetry_failures when the last cycle began
    last200,                \* requests.post returned status 200 in the last cycle
    late,                   \* per channel: the previous cycle failed and a pulse
                            \* arrived between its drain and its store-back
    lastReport,             \* the last cycle, if it succeeded: the counts sent, the
                            \* pulses up to its drain, late, the failures it cleared
    mark,                   \* per channel, since the last tick that followed a
                            \* pulse or a success: the retained count at that tick,
                            \* no pulse since (quiet), failed cycles since (n, up to 2)
    recovery,               \* in a failed cycle: none, or check_wifi_connection()
                            \* was called, or it was skipped with the link up
                            \* (skipped) or down (neglected)
    overlaps,               \* ticks since boot that preempted a running cycle
    unreported              \* per channel: pulses since boot minus the counts
                            \* of the reports answered with 200

progVars == <<pcRun, site, configuration, counter_function, timer_started, wdt_fed,
              resetBy, pcnt, associated, accumulated_unsent, telemetry_failures,
              wlan, pc, irq_disabled, current_count, total_to_send, response>>
histVars == <<owed, sinceDrain, consecFails, lastOutcome, failuresAtTick,
              last200, late, lastReport, mark>>
envVars == <<suspended, wdt_clock, requests_module, urequests_available>>
ghostVars == <<recovery, overlaps, unreported>>
otherVars == <<envVars, ghostVars>>
vars == <<progVars, histVars, otherVars>>

NoFrame == [active |-> FALSE, total |-> Zero]

\* ------------------------------------------------------------- operators

\* line 126, 127: the hardware counter after value(0), which clears it
UnclearedCounter(v) == v            \* faulty variant: value() without the clear
ClearedCounter(v) == 0

\* line 257, 258: the hardware counter after value(), which only reads it
CounterAfterValueZero(v) == 0       \* faulty variant: value(0) in the main loop
CounterAfterValue(v) == v

\* line 130-131: the amount of one report
TotalOfCountOnly(count, unsent) == count      \* faulty variant: carry-over forgotten
TotalToSend(count, unsent) == count + unsent

\* line 150-151 and 162-163: what a failed cycle stores as carry-over
StoreBackAdded(total, unsent) == unsent + total    \* faulty variant: added, not assigned
StoreBackSkipped(total, unsent) == unsent          \* faulty variant: nothing stored
StoreBack(total, unsent) == total

\* line 143-144: the carry-over after a success
KeptUnsent == accumulated_unsent    \* faulty variant: carry-over not cleared
ClearedUnsent == Zero

\* line 145
FailuresKept(failures) == failures  \* faulty variant: count not cleared
FailuresAfterSuccess(failures) == 0

\* line 170
FailuresAfterFailure(failures) == failures + 1

\* line 140
IsSuccess(r) == r.kind = "status" /\ r.code = 200

\* line 84: check_telemetry_failure_limit calls reset()
FailureLimitReached(failures) == failures >= TELEMETRY_MAX_FAILURES

\* line 186-195: loading settings.json raised OSError or ValueError
SettingsMissing(ok) == ~ok

\* line 199
ConfigurationAccepted(cfg) == FALSE \* faulty variant: the check is missing
ConfigurationMissing(cfg) == ~cfg.present

\* line 215-216, 229-230: a channel's counter is created when its enable flag
\* is set
CounterCreatedAlways(cfg, c) == TRUE \* faulty variant: the flag is ignored
CounterCreated(cfg, c) ==
    IF c = "output" THEN cfg.enable_output_signal ELSE cfg.enable_rejection_signal

\* line 154: the non-200 branch calls check_wifi_connection() only when
\* wlan.isconnected() is false
LinkDownIgnored(assoc) == FALSE     \* faulty variant: the call is never made
LinkDown(assoc) == ~assoc

\* line 132-133: the finally clause calls enable_irq(state) when a read has
\* raised
IrqLeftAsIs(disabled) == disabled   \* faulty variant: enable_irq not in a finally
IrqAfterFinally(disabled) == FALSE

\* wifimgr.get_connection(): the outcomes it can have in the given link state
GetConnectionOutcomes(assoc) == IF assoc THEN {Sta} ELSE {Sta, None, "raise"}

\* line 59-79: check_wifi_connection() with get_connection's outcome r.
\* Result: the return value, whether it raised, wlan and the link afterwards,
\* and whether line 70-77 ran (reimport).
check_wifi_connection(w, assoc, r) ==
    IF ~(w = None \/ ~assoc)
    THEN [ret |-> TRUE, raised |-> FALSE, wlan |-> w, assoc |-> assoc,
          reimport |-> FALSE]
    ELSE IF r = "raise"
    THEN [ret |-> FALSE, raised |-> TRUE, wlan |-> w, assoc |-> assoc,
          reimport |-> FALSE]
    ELSE IF r = None
    THEN [ret |-> FALSE, raised |-> FALSE, wlan |-> None, assoc |-> FALSE,
          reimport |-> FALSE]
    ELSE [ret |-> TRUE, raised |-> FALSE, wlan |-> Sta, assoc |-> TRUE,
          reimport |-> TRUE]

\* line 71-77: with a module urequests in the image, the name requests is
\* bound to a newly loaded module object (1 and 2 alternate, so that it
\* differs from the one before); without one, import urequests raises and
\* line 77 binds the module sys.modules already holds, the one of line 9
Reimport(module, available) ==
    IF available THEN (IF module = 1 THEN 2 ELSE 1) ELSE 0

\* the name requests after check_wifi_connection() with result res
RequestsAfter(res) ==
    IF res.reimport THEN Reimport(requests_module, urequests_available)
    ELSE requests_module

Running == resetBy = "none"

\* ------------------------------------------------------------------ Init
Boot(images) ==
    /\ pcRun = "start"
    /\ site = ""
    /\ configuration = NoConfiguration
    /\ counter_function = [c \in Channels |-> FALSE]
    /\ timer_started = FALSE
    /\ wdt_fed = TRUE
    /\ resetBy = "none"
    /\ pcnt = Zero
    /\ associated \in BOOLEAN
    /\ accumulated_unsent = Zero
    /\ telemetry_failures = 0
    /\ wlan = None
    /\ pc = "idle"
    /\ irq_disabled = FALSE
    /\ current_count = Zero
    /\ total_to_send = Zero
    /\ response = NoResponse
    /\ owed = Zero
    /\ sinceDrain = Zero
    /\ consecFails = 0
    /\ lastOutcome = "none"
    /\ failuresAtTick = 0
    /\ last200 = FALSE
    /\ late = Nowhere
    /\ lastReport = NoReport
    /\ mark = NoMark
    /\ recovery = "none"
    /\ suspended = NoFrame
    /\ wdt_clock = 0
    /\ requests_module = 0
    /\ urequests_available \in images
    /\ overlaps = 0
    /\ unreported = Zero

\* the image of the device has the module requests of line 9 and no urequests
Init == Boot({FALSE})


\* ------------------------------------------------------ history operators

\* the mark after a pulse on channel c
Dirty(m, c) == [m EXCEPT ![c] = [base |-> 0, quiet |-> FALSE, n |-> 0]]

\* the mark after one more failed cycle
Counted(m) ==
    [c \in Channels |->
        IF m[c].quiet /\ m[c].n < 2 THEN [m[c] EXCEPT !.n = @ + 1] ELSE m[c]]

\* the amount of channel c the device holds: the hardware counter plus the
\* carry-over, or plus the drained amount while the report is in flight
Held(c) ==
    IF pc = "post" THEN total_to_send[c]
    ELSE IF pc = "drain_rejection" /\ c = "output"
    THEN current_count[c] + accumulated_unsent[c]
    ELSE accumulated_unsent[c]
Retained(c) == pcnt[c] + Held(c)

\* ----------------------------------------------------------------- run()

\* line 185-195: settings.json is read; a failure calls reset()
LoadSettings(ok) ==
    /\ Running /\ pcRun = "start"
    /\ IF SettingsMissing(ok)
       THEN pcRun' = pcRun /\ site' = site /\ resetBy' = "settings"
       ELSE pcRun' = "configure" /\ site' = "site" /\ resetBy' = resetBy
    /\ UNCHANGED <<configuration, counter_function, timer_started, wdt_fed, pcnt,
                   associated, accumulated_unsent, telemetry_failures, wlan, pc,
                   irq_disabled, current_count, total_to_send, response, histVars>>
    /\ UNCHANGED otherVars

\* line 197-201: get_configuration() returns the configuration or None
\* (non-200 or exception); nothing returned calls reset()
GetConfiguration(cfg) ==
    /\ Running /\ pcRun = "configure"
    /\ cfg.present => associated
    /\ configuration' = cfg
    /\ IF ConfigurationMissing(cfg)
       THEN pcRun' = pcRun /\ resetBy' = "configuration"
       ELSE pcRun' = "setup" /\ resetBy' = resetBy
    /\ UNCHANGED <<site, counter_function, timer_started, wdt_fed, pcnt, associated,
                   accumulated_unsent, telemetry_failures, wlan, pc, irq_disabled,
                   current_count, total_to_send, response, histVars>>
    /\ UNCHANGED otherVars

\* line 203-252: the enabled counters are created and started, then the
\* telemetry timer
Setup ==
    /\ Running /\ pcRun = "setup"
    /\ counter_function' = [c \in Channels |-> CounterCreated(configuration, c)]
    /\ timer_started' = TRUE
    /\ pcRun' = "loop"
    /\ UNCHANGED <<site, configuration, wdt_fed, resetBy, pcnt, associated,
                   accumulated_unsent, telemetry_failures, wlan, pc, irq_disabled,
                   current_count, total_to_send, response, histVars>>
    /\ UNCHANGED otherVars

\* line 255-259: one iteration of the main loop; value() does not clear
MainLoop ==
    /\ Running /\ pcRun = "loop" /\ pc = "idle"
    /\ wdt_fed' = TRUE
    /\ pcnt' = [c \in Channels |->
           IF counter_function[c] THEN CounterAfterValue(pcnt[c]) ELSE pcnt[c]]
    /\ UNCHANGED <<pcRun, site, configuration, counter_function, timer_started, resetBy,
                   associated, accumulated_unsent, telemetry_failures, wlan,
                   pc, irq_disabled, current_count, total_to_send, response, histVars>>
    /\ wdt_clock' = 0
    /\ UNCHANGED <<suspended, requests_module, urequests_available, ghostVars>>

\* reset(): the device restarts and the module is loaded again
Reboot ==
    /\ ~Running
    /\ pcRun' = "start"
    /\ site' = ""
    /\ configuration' = NoConfiguration
    /\ counter_function' = [c \in Channels |-> FALSE]
    /\ timer_started' = FALSE
    /\ wdt_fed' = TRUE
    /\ resetBy' = "none"
    /\ pcnt' = Zero
    /\ associated' \in BOOLEAN
    /\ accumulated_unsent' = Zero
    /\ telemetry_failures' = 0
    /\ wlan' = None
    /\ pc' = "idle"
    /\ irq_disabled' = FALSE
    /\ current_count' = Zero
    /\ total_to_send' = Zero
    /\ response' = NoResponse
    /\ owed' = Zero
    /\ sinceDrain' = Zero
    /\ consecFails' = 0
    /\ lastOutcome' = "none"
    /\ failuresAtTick' = 0
    /\ last200' = FALSE
    /\ late' = Nowhere
    /\ lastReport' = NoReport
    /\ mark' = NoMark
    /\ recovery' = "none"
    /\ suspended' = NoFrame
    /\ wdt_clock' = 0
    /\ requests_module' = 0
    /\ overlaps' = 0
    /\ unreported' = Zero
    /\ UNCHANGED urequests_available

\* ----------------------------------------------------------- environment

\* an edge on the pin of a started counter (line 225-226, 239-240)
Pulse(c) ==
    /\ Running /\ counter_function[c]
    /\ owed[c] < MaxPulses
    /\ pcnt' = [pcnt EXCEPT ![c] = @ + 1]
    /\ owed' = [owed EXCEPT ![c] = @ + 1]
    /\ sinceDrain' = [sinceDrain EXCEPT ![c] = @ + 1]
    /\ mark' = Dirty(mark, c)
    /\ UNCHANGED <<pcRun, site, configuration, counter_function, timer_started, wdt_fed,
                   resetBy, associated, accumulated_unsent, telemetry_failures, wlan,
                   pc, irq_disabled, current_count, total_to_send, response,
                   consecFails, lastOutcome, failuresAtTick, last200, late,
                   lastReport>>
    /\ unreported' = [unreported EXCEPT ![c] = @ + 1]
    /\ UNCHANGED <<envVars, recovery, overlaps>>

\* the association with the access point is lost or comes back
LinkChange ==
    /\ Running
    /\ associated' = ~associated
    /\ UNCHANGED <<pcRun, site, configuration, counter_function, timer_started, wdt_fed,
                   resetBy, pcnt, accumulated_unsent, telemetry_failures, wlan, pc,
                   irq_disabled, current_count, total_to_send, response, histVars>>
    /\ UNCHANGED otherVars

\* --------------------------------------------------------- send_telemetry()

\* line 126, 127: value(0) of a configured counter, 0 without one
ReadCounter(c) == IF counter_function[c] THEN pcnt[c] ELSE 0

\* the callback ends: its locals are gone, and a call it had preempted goes
\* on from its requests.post
Return ==
    /\ IF suspended.active
       THEN pc' = "post" /\ total_to_send' = suspended.total
       ELSE pc' = "idle" /\ total_to_send' = Zero
    /\ suspended' = NoFrame
    /\ current_count' = Zero
    /\ response' = NoResponse
    /\ recovery' = "none"

\* line 124: send_telemetry() begins and disables interrupts
BeginCycle ==
    /\ pc' = "drain_output"
    /\ irq_disabled' = TRUE
    /\ wdt_fed' = FALSE
    /\ failuresAtTick' = telemetry_failures
    /\ last200' = FALSE
    /\ lastReport' = NoReport
    /\ mark' = [c \in Channels |->
           IF mark[c].quiet THEN mark[c]
           ELSE [base |-> Retained(c), quiet |-> TRUE, n |-> 0]]
    /\ lastOutcome' = "running"
    /\ UNCHANGED <<pcRun, site, configuration, counter_function, timer_started, resetBy,
                   pcnt, associated, accumulated_unsent, telemetry_failures, wlan,
                   current_count, total_to_send, response, owed, sinceDrain,
                   consecFails, late>>
    /\ UNCHANGED <<wdt_clock, requests_module, urequests_available, recovery,
                   unreported>>

\* line 245: the periodic timer calls send_telemetry(); the main loop has run
\* since the callback before (the period is seconds, an iteration is not)
TimerTick ==
    /\ Running /\ timer_started /\ pc = "idle"
    /\ consecFails < MaxFails
    /\ overlaps < MaxOverlaps
    /\ wdt_clock = 0
    /\ BeginCycle
    /\ UNCHANGED <<suspended, overlaps>>

\* line 245 again, while the call before is still in requests.post (its
\* interrupts are enabled, and nothing in line 114-171 or 244-245 makes a
\* second call wait): the new call runs on top of the old one, which goes on
\* when it has returned
OverlapTick ==
    /\ Running /\ timer_started /\ pc = "post"
    /\ ~suspended.active
    /\ overlaps < MaxOverlaps
    /\ consecFails < MaxFails
    /\ suspended' = [active |-> TRUE, total |-> total_to_send]
    /\ overlaps' = overlaps + 1
    /\ BeginCycle

\* line 126: the output counter is read and cleared
DrainOutput ==
    /\ Running /\ pc = "drain_output"
    /\ current_count' = [current_count EXCEPT !["output"] = ReadCounter("output")]
    /\ pcnt' = [pcnt EXCEPT !["output"] = ClearedCounter(@)]
    /\ sinceDrain' = [sinceDrain EXCEPT !["output"] = 0]
    /\ pc' = "drain_rejection"
    /\ UNCHANGED <<pcRun, site, configuration, counter_function, timer_started, wdt_fed,
                   resetBy, associated, accumulated_unsent, telemetry_failures, wlan,
                   irq_disabled, total_to_send, response, owed, consecFails,
                   lastOutcome, failuresAtTick, last200, late, lastReport, mark>>
    /\ UNCHANGED otherVars

\* line 127-133: the rejection counter is read and cleared, the totals are
\* computed and interrupts are enabled again
DrainRejection ==
    /\ Running /\ pc = "drain_rejection"
    /\ current_count' = [current_count EXCEPT !["rejection"] = ReadCounter("rejection")]
    /\ pcnt' = [pcnt EXCEPT !["rejection"] = ClearedCounter(@)]
    /\ sinceDrain' = [sinceDrain EXCEPT !["rejection"] = 0]
    /\ total_to_send' = [c \in Channels |->
           TotalToSend(current_count'[c], accumulated_unsent[c])]
    /\ irq_disabled' = FALSE
    /\ pc' = "post"
    /\ UNCHANGED <<pcRun, site, configuration, counter_function, timer_started, wdt_fed,
                   resetBy, associated, accumulated_unsent, telemetry_failures, wlan,
                   response, owed, consecFails, lastOutcome, failuresAtTick,
                   last200, late, lastReport, mark>>
    /\ UNCHANGED otherVars

\* line 126-127, 132-133: value(0) raises; the finally clause enables
\* interrupts and the exception leaves send_telemetry() before any request.
\* A raising read of the rejection counter comes after the output counter
\* has been cleared: the count read from it is gone with the locals, and the
\* history stops expecting it.
DrainRaises ==
    /\ Running /\ pc \in {"drain_output", "drain_rejection"}
    /\ counter_function[IF pc = "drain_output" THEN "output" ELSE "rejection"]
    /\ irq_disabled' = IrqAfterFinally(irq_disabled)
    /\ Return
    /\ lastOutcome' = "read_raised"
    /\ LET gone == IF pc = "drain_rejection" THEN current_count["output"] ELSE 0 IN
       /\ owed' = [owed EXCEPT !["output"] = @ - gone]
       /\ unreported' = [unreported EXCEPT !["output"] = @ - gone]
       /\ mark' = IF gone > 0 THEN Dirty(mark, "output") ELSE mark
    /\ UNCHANGED <<pcRun, site, configuration, counter_function, timer_started, wdt_fed,
                   resetBy, pcnt, associated, accumulated_unsent, telemetry_failures,
                   wlan, sinceDrain, consecFails, failuresAtTick, last200,
                   late, lastReport, wdt_clock, requests_module,
                   urequests_available, overlaps>>

\* line 138 takes time: requests.post has no timeout and blocks inside the
\* callback, half a watchdog period at a step.  The main loop, which the
\* callback has preempted, does not run meanwhile (MainLoop needs pc = "idle"),
\* and the watchdog of line 27 resets the device when it has not been fed
\* for WDT_TIMEOUT ms.
TimePasses ==
    /\ Running /\ pc = "post"
    /\ wdt_clock < WDT_TIMEOUT
    /\ wdt_clock' = wdt_clock + (WDT_TIMEOUT \div 2)
    /\ resetBy' = IF wdt_clock' >= WDT_TIMEOUT THEN "watchdog" ELSE resetBy
    /\ UNCHANGED <<pcRun, site, configuration, counter_function, timer_started, wdt_fed,
                   pcnt, associated, accumulated_unsent, telemetry_failures, wlan,
                   pc, irq_disabled, current_count, total_to_send, response,
                   histVars, suspended, requests_module, urequests_available,
                   ghostVars>>

\* the history of a cycle whose report was not accepted
FailureSeen ==
    /\ consecFails' = consecFails + 1
    /\ late' = [c \in Channels |-> sinceDrain[c] > 0]
    /\ UNCHANGED <<owed, sinceDrain, lastOutcome, failuresAtTick, last200, lastReport, mark>>

\* line 138-151: requests.post returns a response with status code s
Respond(s) ==
    /\ Running /\ pc = "post" /\ associated
    /\ IF IsSuccess(Status(s))
       THEN /\ accumulated_unsent' = ClearedUnsent
            /\ telemetry_failures' = FailuresAfterSuccess(telemetry_failures)
            /\ Return
            /\ owed' = sinceDrain
            /\ consecFails' = 0
            /\ lastOutcome' = "ok"
            /\ last200' = (s = 200)
            /\ lastReport' = [count |-> total_to_send,
                              expected |-> [c \in Channels |-> owed[c] - sinceDrain[c]],
                              late |-> late,
                              cleared |-> telemetry_failures]
            /\ late' = Nowhere
            /\ mark' = NoMark
            /\ failuresAtTick' = 0
            /\ unreported' = [c \in Channels |-> unreported[c] - total_to_send[c]]
            /\ UNCHANGED sinceDrain
       ELSE /\ accumulated_unsent' = [c \in Channels |->
                   StoreBack(total_to_send[c], accumulated_unsent[c])]
            /\ response' = Status(s)
            /\ pc' = "else_wifi"
            /\ FailureSeen
            /\ UNCHANGED <<telemetry_failures, current_count, total_to_send,
                           suspended, recovery, unreported>>
    /\ UNCHANGED <<pcRun, site, configuration, counter_function, timer_started, wdt_fed,
                   resetBy, pcnt, associated, wlan, irq_disabled, wdt_clock,
                   requests_module, urequests_available, overlaps>>

\* line 138, 156-163: requests.post raises; the handler stores the counts
PostRaises ==
    /\ Running /\ pc = "post"
    /\ accumulated_unsent' = [c \in Channels |->
           StoreBack(total_to_send[c], accumulated_unsent[c])]
    /\ response' = Raised
    /\ pc' = "except_wifi"
    /\ FailureSeen
    /\ UNCHANGED <<pcRun, site, configuration, counter_function, timer_started, wdt_fed,
                   resetBy, pcnt, associated, telemetry_failures, wlan, irq_disabled,
                   current_count, total_to_send>>
    /\ UNCHANGED otherVars

\* an exception raised inside the try block: line 156-163 store the counts
\* again and the handler goes on to its connectivity check
ToExceptHandler ==
    /\ accumulated_unsent' = [c \in Channels |->
           StoreBack(total_to_send[c], accumulated_unsent[c])]
    /\ pc' = "except_wifi"
    /\ UNCHANGED <<wlan, associated>>

\* line 154-155: the non-200 branch looks at the link.  wlan.isconnected()
\* on wlan = None raises AttributeError, as does a raising get_connection:
\* both are caught by line 156.
ElseWifi ==
    /\ Running /\ pc = "else_wifi"
    /\ IF wlan = None
       THEN ToExceptHandler /\ UNCHANGED <<recovery, requests_module>>
       ELSE IF ~LinkDown(associated)
       THEN /\ pc' = "increment"
            /\ recovery' = IF associated THEN "skipped" ELSE "neglected"
            /\ UNCHANGED <<accumulated_unsent, wlan, associated, requests_module>>
       ELSE /\ recovery' = "called"
            /\ \E r \in GetConnectionOutcomes(associated) :
                   LET res == check_wifi_connection(wlan, associated, r) IN
                   /\ requests_module' = RequestsAfter(res)
                   /\ IF res.raised
                      THEN ToExceptHandler
                      ELSE /\ wlan' = res.wlan
                           /\ associated' = res.assoc
                           /\ pc' = "increment"
                           /\ UNCHANGED accumulated_unsent
    /\ UNCHANGED <<pcRun, site, configuration, counter_function, timer_started, wdt_fed,
                   resetBy, pcnt, telemetry_failures, irq_disabled, current_count,
                   total_to_send, response, histVars, suspended, wdt_clock,
                   urequests_available, overlaps, unreported>>

\* line 166-167: the exception handler calls check_wifi_connection(); an
\* exception it raises leaves send_telemetry() (the callback ends there)
ExceptWifi ==
    /\ Running /\ pc = "except_wifi"
    /\ \E r \in GetConnectionOutcomes(associated) :
           LET res == check_wifi_connection(wlan, associated, r) IN
           /\ requests_module' = RequestsAfter(res)
           /\ IF res.raised
              THEN /\ Return
                   /\ lastOutcome' = "raised"
                   /\ mark' = Counted(mark)
                   /\ UNCHANGED <<wlan, associated>>
              ELSE /\ wlan' = res.wlan
                   /\ associated' = res.assoc
                   /\ pc' = "increment"
                   /\ recovery' = "called"
                   /\ UNCHANGED <<current_count, total_to_send, response,
                                  lastOutcome, mark, suspended>>
    /\ UNCHANGED <<pcRun, site, configuration, counter_function, timer_started, wdt_fed,
                   resetBy, pcnt, accumulated_unsent, telemetry_failures,
                   irq_disabled, owed, sinceDrain, consecFails, failuresAtTick,
                   last200, late, lastReport, wdt_clock, urequests_available,
                   overlaps, unreported>>

\* line 169-171, 81-87: the failure count is incremented and the limit is
\* checked; at the limit reset() is called
Increment ==
    /\ Running /\ pc = "increment"
    /\ telemetry_failures' = FailuresAfterFailure(telemetry_failures)
    /\ lastOutcome' = "fail"
    /\ mark' = Counted(mark)
    /\ IF FailureLimitReached(telemetry_failures')
       THEN /\ resetBy' = "telemetry"
            /\ UNCHANGED <<pc, current_count, total_to_send, response, recovery,
                           suspended>>
       ELSE /\ Return
            /\ resetBy' = resetBy
    /\ UNCHANGED <<pcRun, site, configuration, counter_function, timer_started, wdt_fed,
                   pcnt, associated, accumulated_unsent, wlan, irq_disabled, owed,
                   sinceDrain, consecFails, failuresAtTick, last200, late,
                   lastReport, wdt_clock, requests_module, urequests_available,
                   overlaps, unreported>>

\* ------------------------------------------------------------------ Next
Next ==
    \/ \E ok \in BOOLEAN : LoadSettings(ok)
    \/ \E cfg \in Configurations \cup {NoConfiguration} : GetConfiguration(cfg)
    \/ Setup
    \/ MainLoop
    \/ Reboot
    \/ \E c \in Channels : Pulse(c)
    \/ LinkChange
    \/ TimerTick
    \/ DrainOutput
    \/ DrainRejection
    \/ \E s \in StatusCodes : Respond(s)
    \/ PostRaises
    \/ ElseWifi
    \/ ExceptWifi
    \/ Increment

Spec == Init /\ [][Next]_vars

\* the device when a read of a hardware counter can raise
NextReadFault == Next \/ DrainRaises
SpecReadFault == Init /\ [][NextReadFault]_vars

\* the device with either image, with or without a module urequests
InitAnyImage == Boot(BOOLEAN)
SpecTransport == InitAnyImage /\ [][Next]_vars

\* the device with the time a request takes
NextWatchdog == Next \/ TimePasses
SpecWatchdog == Init /\ [][NextWatchdog]_vars

\* the device when the platform lets a tick preempt a running callback
NextOverlap == Next \/ OverlapTick
SpecOverlap == Init /\ [][NextOverlap]_vars


\* ================================================================ claims

\* C1 (conservation): for each channel, in every state, the count the device
\* holds (hardware counter plus carry-over, an amount in flight counted once)
\* is the number of pulses since the drain of the last successful report.
C1_Conservation == \A c \in Channels : Retained(c) = owed[c]

\* C1 happens: a failed cycle has stored a carry-over and a new pulse has
\* arrived on top of it.
C1_Witness ==
    /\ pc = "idle" /\ lastOutcome = "fail"
    /\ accumulated_unsent["output"] >= 1 /\ pcnt["output"] >= 1

\* C2 (no loss under interleaving): the amount in flight is exactly the
\* pulses up to its drain, so a pulse after the drain is not added to it, and
\* a successful report carries every pulse between the previous successful
\* drain and its own, the pulses that arrived during failed cycles included.
C2_NoLossUnderInterleaving ==
    \A c \in Channels :
        /\ pc = "post" => total_to_send[c] = owed[c] - sinceDrain[c]
        /\ lastOutcome = "ok" => lastReport.count[c] = lastReport.expected[c]

\* C2 happens: a report succeeded after a failed cycle during which a pulse
\* arrived between the drain and the store-back.
C2_Witness ==
    /\ lastOutcome = "ok" /\ lastReport.late["output"]
    /\ lastReport.count["output"] >= 1

\* C3 (escalation threshold), as claimed: the reporting path calls reset()
\* at the end of the 5th failed cycle in a row, so no 5th failed cycle ends
\* without it, and never earlier.
C3_EscalationThreshold ==
    /\ resetBy = "telemetry" => consecFails = TELEMETRY_MAX_FAILURES
    /\ Running /\ pc = "idle" => consecFails < TELEMETRY_MAX_FAILURES

\* C4 (escalation reset on success): a success leaves telemetry_failures at
\* 0, and the reporting path calls reset() only after at least 5 failed
\* cycles since the last success.
C4_ResetOnSuccess ==
    /\ lastOutcome = "ok" => telemetry_failures = 0
    /\ resetBy = "telemetry" => consecFails >= TELEMETRY_MAX_FAILURES

\* C4 happens: a success has just cleared a failure count of 1 or more.
C4_Witness ==
    /\ lastOutcome = "ok" /\ lastReport.cleared >= 1 /\ telemetry_failures = 0

\* C5, as claimed: every cycle that ends without success has incremented
\* telemetry_failures by exactly one.
C5_EveryFailureCounted ==
    lastOutcome \in {"fail", "raised"} => telemetry_failures = failuresAtTick + 1

\* C6 (escalation scenario): when the reporting path calls reset(), the
\* failed cycle's counts are stored and the device holds every pulse not yet
\* reported.
C6_StoredBeforeReset ==
    resetBy = "telemetry" =>
        \A c \in Channels :
            /\ accumulated_unsent[c] = total_to_send[c]
            /\ pcnt[c] + accumulated_unsent[c] = owed[c]

\* C6 happens: reset() is called while the carry-over holds pulses of which
\* one arrived between two ticks of the run of failed cycles.
C6_Witness ==
    /\ resetBy = "telemetry"
    /\ accumulated_unsent["output"] = MaxPulses
    /\ mark["output"].quiet /\ mark["output"].n = 1

\* C7 (idempotence of failure): after one or more failed cycles with no
\* pulse on a channel since the tick of the first, the channel's retained
\* count is what it was at that tick.
C7_FailureIdempotent ==
    \A c \in Channels :
        Running /\ pc = "idle" /\ mark[c].quiet /\ mark[c].n >= 1
            => pcnt[c] + accumulated_unsent[c] = mark[c].base

\* C7 happens: two failed cycles without a pulse, with a count to keep.
C7_Witness ==
    /\ Running /\ pc = "idle"
    /\ mark["output"].quiet /\ mark["output"].n = 2 /\ mark["output"].base >= 1
    /\ telemetry_failures >= 2

\* C8 (success discards the snapshot): after a successful cycle both
\* carry-overs are 0, telemetry_failures is 0, reset() was not called and
\* the hardware counters hold only the pulses since that cycle's drain.
C8_SuccessDiscards ==
    lastOutcome = "ok" =>
        /\ Running /\ pc = "idle" /\ telemetry_failures = 0
        /\ \A c \in Channels : accumulated_unsent[c] = 0 /\ pcnt[c] = sinceDrain[c]

\* C8 happens: a report with a count succeeded and a pulse arrived after its
\* drain.
C8_Witness ==
    /\ lastOutcome = "ok" /\ lastReport.count["output"] >= 1 /\ pcnt["output"] >= 1

\* C9 (configuration failure is fatal): a reset() for missing settings or
\* configuration comes before the timer is started and before any cycle of
\* that boot, and the timer is only started with settings and configuration.
C9_ConfigurationFatal ==
    /\ resetBy \in {"settings", "configuration"}
           => ~timer_started /\ pc = "idle" /\ lastOutcome = "none"
    /\ timer_started \/ pc # "idle" \/ lastOutcome # "none"
           => site # "" /\ configuration.present

\* C9 happens: get_configuration() returned nothing and reset() is called.
C9_Witness == resetBy = "configuration" /\ site # "" /\ ~configuration.present

\* C10, as claimed: a cycle ends as a success exactly when the status was
\* 200; any other cycle has stored the counts and incremented
\* telemetry_failures.
C10_SuccessIff200 ==
    lastOutcome \in {"ok", "fail", "raised"} =>
        IF last200
        THEN lastOutcome = "ok" /\ accumulated_unsent = Zero /\ telemetry_failures = 0
        ELSE /\ lastOutcome # "ok"
             /\ \A c \in Channels : accumulated_unsent[c] = owed[c] - sinceDrain[c]
             /\ telemetry_failures = failuresAtTick + 1


\* C11 (disabled channel): a channel whose enable flag is off has no counter;
\* its count is 0 in every report, its carry-over stays 0, and every cycle
\* still goes from the drain to requests.post.
C11_DisabledChannel ==
    [][/\ timer_started' /\ ~configuration'.enable_output_signal =>
            ~counter_function'["output"]
       /\ timer_started' /\ ~configuration'.enable_rejection_signal =>
            ~counter_function'["rejection"]
       /\ \A c \in Channels : ~counter_function'[c] =>
                /\ current_count'[c] = 0 /\ total_to_send'[c] = 0
                /\ lastReport'.count[c] = 0 /\ accumulated_unsent'[c] = 0
       /\ (pc = "drain_rejection" /\ pc' # pc /\ Running') => pc' = "post"]_vars

\* C11 happens: with the output channel disabled a cycle has failed and the
\* next report is in flight, the rejection channel carrying a count.
C11_Witness ==
    /\ pc = "post" /\ ~counter_function["output"] /\ telemetry_failures >= 1
    /\ total_to_send["output"] = 0 /\ total_to_send["rejection"] >= 1


\* C12 (failure path), as the code has it: in a failed cycle the counts are
\* stored first, then the link is examined, and only then is the failure
\* count incremented and the limit evaluated; check_wifi_connection() is
\* called in every failed cycle that reaches the increment, except one whose
\* non-200 response arrived with wlan set and the station still associated.
C12_FailurePathOrder ==
    /\ pc \in {"else_wifi", "except_wifi", "increment"} =>
           /\ \A c \in Channels : accumulated_unsent[c] = total_to_send[c]
           /\ Running => telemetry_failures = failuresAtTick
    /\ pc = "else_wifi" => recovery = "none"
    /\ pc = "increment" =>
           \/ recovery = "called"
           \/ recovery = "skipped" /\ response.kind = "status" /\ wlan # None
    /\ resetBy = "telemetry" => telemetry_failures = failuresAtTick + 1

\* C12 happens: a non-200 response with the link up goes to the increment
\* with its counts stored and without a call of check_wifi_connection().
C12_Witness ==
    /\ Running /\ pc = "increment" /\ recovery = "skipped"
    /\ accumulated_unsent["output"] >= 1 /\ telemetry_failures >= 1

\* C12 as stated: check_wifi_connection() has been called in every failed
\* cycle by the time the failure count is incremented.
C12_RecoveryInEveryFailedCycle ==
    /\ pc \in {"else_wifi", "except_wifi", "increment"} =>
           \A c \in Channels : accumulated_unsent[c] = total_to_send[c]
    /\ pc = "increment" => recovery = "called"


\* C13 (overlapping cycles): after a tick has started a second cycle on top
\* of an unfinished one and both have ended, each channel's hardware counter
\* plus carry-over is still the number of pulses not yet reported with
\* success: none lost, none reported twice.
C13_OverlapConservation ==
    (Running /\ overlaps >= 1 /\ pc = "idle") =>
        \A c \in Channels : pcnt[c] + accumulated_unsent[c] = unreported[c]


\* C14 (mutual exclusion): every drain of a hardware counter and every write
\* of a carry-over, the store-back of a failed cycle and the clear of a
\* successful one alike, is a step taken with interrupts disabled.
C14_InsideCriticalSection ==
    [][Running =>
          \A c \in Channels :
              (pcnt'[c] < pcnt[c] \/ accumulated_unsent'[c] # accumulated_unsent[c])
                  => irq_disabled]_vars


\* C15 (interrupts enabled outside the drain): interrupts are disabled only
\* between disable_irq() and the end of the drain; they are enabled when the
\* request is issued and whenever send_telemetry() has returned or raised,
\* a raising counter read included.
C15_IrqEnabledOutsideDrain ==
    irq_disabled => pc \in {"drain_output", "drain_rejection"}

\* C15 happens: a counter read has raised inside the critical section and
\* the callback has ended with interrupts enabled.
C15_Witness ==
    /\ lastOutcome = "read_raised" /\ pc = "idle" /\ ~irq_disabled
    /\ accumulated_unsent["output"] >= 1


\* C16 (watchdog non-starvation): however long a request blocks, the main
\* loop feeds the watchdog before WDT_TIMEOUT ms have passed since the last
\* feed, so the watchdog never resets the device.
C16_WatchdogFedInTime ==
    wdt_clock < WDT_TIMEOUT /\ resetBy # "watchdog"


\* C17 (transport reconstruction): whenever check_wifi_connection() brings a
\* lost association back, the module bound to the name requests afterwards,
\* the one the next report uses, is another object than the one before.
C17_FreshTransportAfterReconnect ==
    [][(/\ pc \in {"else_wifi", "except_wifi"} /\ pc' # pc
        /\ ~associated /\ associated' /\ Running)
          => requests_module' # requests_module]_vars


\* C18 (exactly-once delivery): per channel, the counts of all reports
\* answered with 200 plus the count the device holds is the number of pulses
\* since boot (unreported is the pulses minus the reported counts), and
\* after a successful report the pulses not reported are exactly those that
\* came after its drain.
C18_ExactlyOnce ==
    \A c \in Channels :
        /\ Retained(c) = unreported[c]
        /\ lastOutcome = "ok" => unreported[c] = sinceDrain[c]

\* C18 happens: a report that followed a failed cycle has delivered two
\* pulses of the output channel, and a pulse has arrived since its drain.
C18_Witness ==
    /\ lastOutcome = "ok" /\ lastReport.cleared >= 1
    /\ lastReport.count["output"] >= 2 /\ lastReport.count["rejection"] >= 1
    /\ unreported["rejection"] >= 1


\* C19 (restore applied once): from the store-back of a failed cycle to its
\* end, each carry-over is total_*_to_send, once and not twice, and with the
\* hardware counter it makes up the pulses owed; also after a non-200 branch
\* that raised and had the exception handler store the counts again.
C19_RestoredOnce ==
    (Running /\ pc \in {"else_wifi", "except_wifi", "increment"}) =>
        \A c \in Channels :
            /\ accumulated_unsent[c] = total_to_send[c]
            /\ pcnt[c] + accumulated_unsent[c] = owed[c]

\* C19 happens: after a non-200 response, wlan.isconnected() on the unset
\* wlan has raised and the handler has stored the counts a second time.
C19_Witness ==
    /\ pc = "except_wifi" /\ response.kind = "status" /\ wlan = None
    /\ accumulated_unsent["output"] >= 1 /\ total_to_send["output"] >= 1


\* C20 (the main loop's frame): an iteration of the main loop, the step that
\* feeds the watchdog, leaves the hardware counters, the carry-overs and
\* telemetry_failures as they were; a counter goes down and a carry-over or
\* the failure count is rewritten only in a step of send_telemetry() (or by
\* the restart of the device).
C20_MainLoopFrame ==
    [][/\ (Running /\ pc = "idle" /\ pc' = "idle" /\ ~wdt_fed /\ wdt_fed') =>
            UNCHANGED <<pcnt, accumulated_unsent, telemetry_failures>>
       /\ (/\ Running
           /\ \/ \E c \in Channels : pcnt'[c] < pcnt[c]
              \/ accumulated_unsent' # accumulated_unsent
              \/ telemetry_failures' # telemetry_failures)
            => pc # "idle"]_vars

\* C20 happens: the main loop has run after a failed cycle, with a count in
\* the hardware counter, a carry-over and a failure count in place.
C20_Witness ==
    /\ Running /\ pcRun = "loop" /\ pc = "idle" /\ wdt_fed /\ lastOutcome = "fail"
    /\ pcnt["output"] >= 1 /\ accumulated_unsent["output"] >= 1
    /\ telemetry_failures >= 1

====
